---- MODULE Spec2Model ----
(***************************************************************************)
(* A model of packages/realm/src/app-services/SyncSession.ts: the two      *)
(* shared listener registries (PROGRESS_LISTENERS, CONNECTION_LISTENERS),  *)
(* the engine handles they register with, and the deadline-bound waits of  *)
(* downloadAllServerChanges / uploadAllLocalChanges.                       *)
(***************************************************************************)
EXTENDS Integers, Sequences, FiniteSets, TLC

\* ------------------------------------------------------------------ bounds
NumCallbacks == 2
NumInstances == 3
MaxRegistrations == 2
MaxWaits == 2
MaxDeliveries == 2

Callbacks == 1..NumCallbacks

\* The engine handles: every handle is wrapped by up to two facade instances
\* (the one the application holds and, say, the one an error callback is given).
NumHandles == (NumInstances + 1) \div 2
Handles == 1..NumHandles
Tokens == 1..MaxRegistrations
Kinds == {"progress", "connection"}

\* A SyncSession wraps exactly one engine handle (constructor); several
\* instances may wrap the same handle: instances 2h-1 and 2h wrap handle h.
SyncSession == {[id |-> i, internal |-> (i + 1) \div 2] : i \in 1..NumInstances}

\* The public enums, and one value outside each (JavaScript callers are untyped).
ProgressDirection == {"download", "upload"}
DirectionInputs == ProgressDirection \cup {"sideways"}
ProgressMode == {"reportIndefinitely", "forCurrentlyOutstandingWork"}

VARIABLES
  listeners,   \* listeners[k]: the entries of registry k, each [callback, token]
  engine,      \* the engine handles: live registrations, token counters, releases
  lastCall,    \* the facade call that produced this state, and its outcome
  waits,       \* the deadline-bound waits created so far, in creation order
  deliveries,  \* the events the engines delivered, each with the calls it caused
  internals,   \* handle -> the fields of that binding.SyncSession
  lastRead     \* what the last step read through an accessor, if it was a read

vars == <<listeners, engine, lastCall, waits, deliveries, internals, lastRead>>
registryVars == <<listeners, engine, lastCall, deliveries, internals, lastRead>>

\* --------------------------------------------------------- state translator
toBindingDirection(direction) ==
  IF direction = "download" THEN [threw |-> FALSE, value |-> "binding.download"]
  ELSE IF direction = "upload" THEN [threw |-> FALSE, value |-> "binding.upload"]
  ELSE [threw |-> TRUE, value |-> "Unexpected direction"]

\* ------------------------------------------------------------------ engine
\* The engine hands out one token counter per handle and per listener kind, so
\* a progress token and a connection token of one handle may be the same number.
registerProgressNotifier(eng, h, callback, direction, indefinitely) ==
  LET t == eng.next[h].progress IN
  [eng EXCEPT
     !.notifiers[h].progress = @ \cup {[token |-> t, callback |-> callback]},
     !.next[h].progress = @ + 1]

unregisterProgressNotifier(eng, h, t) ==
  [eng EXCEPT
     !.notifiers[h].progress = {r \in @ : r.token # t},
     !.released[h].progress[t] = @ + 1]

registerConnectionChangeCallback(eng, h, callback) ==
  LET t == eng.next[h].connection IN
  [eng EXCEPT
     !.notifiers[h].connection = @ \cup {[token |-> t, callback |-> callback]},
     !.next[h].connection = @ + 1]

unregisterConnectionChangeCallback(eng, h, t) ==
  [eng EXCEPT
     !.notifiers[h].connection = {r \in @ : r.token # t},
     !.released[h].connection[t] = @ + 1]

\* ------------------------------------------------------- Listeners (class)
has(reg, callback) == \E e \in reg : e.callback = callback

get(reg, callback) == (CHOOSE e \in reg : e.callback = callback).token

set(reg, callback, token) ==
  {e \in reg : e.callback # callback} \cup {[callback |-> callback, token |-> token]}

delete(reg, callback) == {e \in reg : e.callback # callback}

\* -------------------------------------------------------- PROGRESS_LISTENERS
\* Mutant: the registry is configured not to throw on a re-add.
Mut_throwOnReAdd == FALSE

PROGRESS_throwOnReAdd == TRUE

PROGRESS_register(eng, callback, args) ==
  LET internal == args[1]
      d == toBindingDirection(args[2])
      mode == args[3]
  IN IF d.threw
    THEN [threw |-> TRUE, error |-> d.value]
    ELSE [threw |-> FALSE,
          engine |-> registerProgressNotifier(eng, internal, callback, d.value,
                                              mode = "reportIndefinitely"),
          token |-> [internal |-> internal, token |-> eng.next[internal].progress]]

PROGRESS_unregister(eng, token) ==
  unregisterProgressNotifier(eng, token.internal, token.token)

\* ------------------------------------------------------ CONNECTION_LISTENERS
CONNECTION_throwOnReAdd == TRUE

CONNECTION_register(eng, callback, args) ==
  LET internal == args[1] IN
  [threw |-> FALSE,
   engine |-> registerConnectionChangeCallback(eng, internal, callback),
   token |-> [internal |-> internal, token |-> eng.next[internal].connection]]

CONNECTION_unregister(eng, token) ==
  unregisterProgressNotifier(eng, token.internal, token.token)

\* ------------------------------------------------ Listeners.add / .remove
\* The options a registry was constructed with, by registry kind.
throwOnReAdd(kind) ==
  IF kind = "progress" THEN PROGRESS_throwOnReAdd ELSE CONNECTION_throwOnReAdd

register(kind, eng, callback, args) ==
  IF kind = "progress" THEN PROGRESS_register(eng, callback, args)
                       ELSE CONNECTION_register(eng, callback, args)

unregister(kind, eng, token) ==
  IF kind = "progress" THEN PROGRESS_unregister(eng, token)
                       ELSE CONNECTION_unregister(eng, token)

\* The result of a registry operation: the registry, the engine and the
\* outcome the caller sees ("ok", or the error thrown).
Listeners_add(kind, reg, eng, callback, args) ==
  IF has(reg, callback)
    THEN [reg |-> reg, engine |-> eng,
          outcome |-> IF throwOnReAdd(kind) THEN "DuplicateRegistration" ELSE "ok"]
    ELSE LET r == register(kind, eng, callback, args) IN
      IF r.threw
        THEN [reg |-> reg, engine |-> eng, outcome |-> r.error]
        ELSE [reg |-> set(reg, callback, r.token), engine |-> r.engine,
              outcome |-> "ok"]

Listeners_remove(kind, reg, eng, callback) ==
  IF has(reg, callback)
    THEN [reg |-> delete(reg, callback),
          engine |-> unregister(kind, eng, get(reg, callback)),
          outcome |-> "ok"]
    ELSE [reg |-> reg, engine |-> eng, outcome |-> "ok"]

\* ------------------------------------------------------------ SyncSession
\* The number of registrations the engines have accepted so far.
RECURSIVE RegisteredUpTo(_, _)
RegisteredUpTo(eng, h) ==
  IF h = 0 THEN 0
  ELSE (eng.next[h].progress - 1) + (eng.next[h].connection - 1)
       + RegisteredUpTo(eng, h - 1)

Registered(eng) == RegisteredUpTo(eng, NumHandles)

\* The model stops registering after MaxRegistrations registrations; a call that
\* registers nothing is always possible.
CanRegister(kind, this, callback) ==
  \/ has(listeners[kind], callback)
  \/ Registered(engine) < MaxRegistrations

Called(op, kind, this, callback, r) ==
  /\ listeners' = [listeners EXCEPT ![kind] = r.reg]
  /\ engine' = r.engine
  /\ lastCall' = [op |-> op, kind |-> kind, internal |-> this.internal,
                  callback |-> callback, outcome |-> r.outcome]
  /\ UNCHANGED <<waits, deliveries, internals, lastRead>>

\* Mutant: one progress registry per handle instead of one for the module.
Mut_addPerHandleRegistry(this, direction, mode, callback) ==
  LET mine == {e \in listeners.progress : e.token.internal = this.internal}
      r == Listeners_add("progress", mine, engine, callback,
                         <<this.internal, direction, mode>>)
  IN /\ CanRegister("progress", this, callback)
     /\ Called("add", "progress", this, callback,
               [r EXCEPT !.reg = (listeners.progress \ mine) \cup r.reg])

addProgressNotification(this, direction, mode, callback) ==
  /\ CanRegister("progress", this, callback)
  /\ Called("add", "progress", this, callback,
            Listeners_add("progress", listeners.progress, engine, callback,
                          <<this.internal, direction, mode>>))

\* Mutant: the progress removal goes to the connection registry.
Mut_removeFromOtherRegistry(this, callback) ==
  LET r == Listeners_remove("connection", listeners.connection, engine, callback)
  IN /\ listeners' = [listeners EXCEPT !.connection = r.reg]
     /\ engine' = r.engine
     /\ lastCall' = [op |-> "remove", kind |-> "progress",
                     internal |-> this.internal, callback |-> callback,
                     outcome |-> r.outcome]
     /\ UNCHANGED <<waits, deliveries, internals, lastRead>>

\* Mutant: the progress removal unregisters on the handle of the instance it is
\* called on, not on the handle stored in the token.
Mut_removeOnThisHandle(this, callback) ==
  Called("remove", "progress", this, callback,
         IF has(listeners.progress, callback)
           THEN [reg |-> delete(listeners.progress, callback),
                 engine |-> unregisterProgressNotifier(
                              engine, this.internal,
                              get(listeners.progress, callback).token),
                 outcome |-> "ok"]
           ELSE [reg |-> listeners.progress, engine |-> engine, outcome |-> "ok"])

removeProgressNotification(this, callback) ==
  Called("remove", "progress", this, callback,
         Listeners_remove("progress", listeners.progress, engine, callback))

\* Mutant: a re-add of a live callback registers again and replaces the entry.
Mut_addReplaces(this, callback) ==
  /\ Registered(engine) < MaxRegistrations
  /\ LET r == Listeners_add("connection", delete(listeners.connection, callback),
                            engine, callback, <<this.internal>>)
     IN Called("add", "connection", this, callback, r)

addConnectionNotification(this, callback) ==
  /\ CanRegister("connection", this, callback)
  /\ Called("add", "connection", this, callback,
            Listeners_add("connection", listeners.connection, engine, callback,
                          <<this.internal>>))

removeConnectionNotification(this, callback) ==
  Called("remove", "connection", this, callback,
         Listeners_remove("connection", listeners.connection, engine, callback))

\* --------------------------------------------------------------- deliveries
\* The engine's values: progress counts are 64-bit integers (bigint), states
\* are members of the binding's enums.
SyncSessionConnectionState ==
  {"binding.Disconnected", "binding.Connecting", "binding.Connected"}

\* The n-th event of a run of the engine: progress grows by equal steps up to
\* the transferable total, and the connection goes round disconnected,
\* connecting, connected.
ProgressEvent(n) == <<[bigint |-> 500 * n], [bigint |-> 500 * MaxDeliveries]>>

ConnectionCycle == <<"binding.Disconnected", "binding.Connecting", "binding.Connected">>

ConnectionEvent(n) ==
  <<ConnectionCycle[((n - 1) % 3) + 1], ConnectionCycle[(n % 3) + 1]>>

\* Number(bigint): the JavaScript number of the same value.
Number(x) == x.bigint

Mut_connectionStateDefaults(state) ==
  IF state = "binding.Connected" THEN [threw |-> FALSE, value |-> "connected"]
  ELSE IF state = "binding.Connecting" THEN [threw |-> FALSE, value |-> "connecting"]
  ELSE [threw |-> FALSE, value |-> "disconnected"]

fromBindingConnectionState(state) ==
  IF state = "binding.Connected" THEN [threw |-> FALSE, value |-> "connected"]
  ELSE IF state = "binding.Connecting" THEN [threw |-> FALSE, value |-> "connecting"]
  ELSE IF state = "binding.Disconnected"
    THEN [threw |-> FALSE, value |-> "disconnected"]
  ELSE [threw |-> TRUE, value |-> "Unexpected state"]

\* The adapter closures registered with the engine: the calls of the caller's
\* callback that one call of the adapter makes, in order.
Mut_progressAdapterTwice(callback, transferred, transferable) ==
  LET call == [callback |-> callback,
               args |-> <<Number(transferred), Number(transferable)>>]
  IN <<call, call>>

ProgressAdapter(callback, transferred, transferable) ==
  <<[callback |-> callback, args |-> <<Number(transferred), Number(transferable)>>]>>

Mut_connectionAdapterKeepsOrder(callback, oldState, newState) ==
  LET n == fromBindingConnectionState(newState)
      o == fromBindingConnectionState(oldState)
  IN IF n.threw \/ o.threw THEN <<>>
     ELSE <<[callback |-> callback, args |-> <<o.value, n.value>>]>>

ConnectionAdapter(callback, oldState, newState) ==
  LET n == fromBindingConnectionState(newState)
      o == fromBindingConnectionState(oldState)
  IN IF n.threw \/ o.threw THEN <<>>
     ELSE <<[callback |-> callback, args |-> <<n.value, o.value>>]>>

\* The registry holds the entry the registration r of handle h belongs to.
HasEntry(kind, h, r) ==
  [callback |-> r.callback, token |-> [internal |-> h, token |-> r.token]]
    \in listeners[kind]

\* The engine delivers an event to one of its live registrations: it calls the
\* adapter, which calls the callback before it returns.
Delivered(kind, h, r, event, calls) ==
  /\ Len(deliveries) < MaxDeliveries
  /\ deliveries' = Append(deliveries,
       [kind |-> kind, handle |-> h, token |-> r.token, registered |-> r.callback,
        event |-> event, calls |-> calls, entry |-> HasEntry(kind, h, r)])
  /\ UNCHANGED <<listeners, engine, lastCall, waits, internals, lastRead>>

DeliverProgress(h, r) ==
  LET event == ProgressEvent(Len(deliveries) + 1)
  IN /\ r \in engine.notifiers[h].progress
     /\ Delivered("progress", h, r, event,
                  ProgressAdapter(r.callback, event[1], event[2]))

DeliverConnection(h, r) ==
  LET event == ConnectionEvent(Len(deliveries) + 1)
  IN /\ r \in engine.notifiers[h].connection
     /\ Delivered("connection", h, r, event,
                  ConnectionAdapter(r.callback, event[1], event[2]))

\* ---------------------------------------------------------------- accessors
\* The values an engine field can hold: the members of the binding's enum and
\* a value outside of it; for the URL nothing, the empty string or a URL.
Unrecognized == "binding.unrecognized"

SyncSessionState ==
  {"binding.Active", "binding.Dying", "binding.Inactive",
   "binding.WaitingForAccessToken"}

SessionStateInputs == SyncSessionState \cup {Unrecognized}

ConnectionStateInputs == SyncSessionConnectionState \cup {Unrecognized}

UrlInputs == {<<>>, <<"">>, <<"wss://a.example/sync">>, <<"wss://b.example/sync">>}

Mut_sessionStateByActive(state) ==
  IF state = "binding.Active" THEN "active" ELSE "inactive"

fromBindingSessionState(state) ==
  IF state = "binding.Inactive" THEN "inactive" ELSE "active"

NoRead == [op |-> "none", internal |-> 0, threw |-> FALSE, value |-> ""]

\* One call of an accessor of the instance `this`; nothing is written.
Read(op, this, threw, value) ==
  /\ lastRead' = [op |-> op, internal |-> this.internal, threw |-> threw,
                  value |-> value]
  /\ UNCHANGED <<listeners, engine, lastCall, waits, deliveries, internals>>

get_state(this) ==
  Read("state", this, FALSE, fromBindingSessionState(internals[this.internal].state))

Mut_urlOrEmpty(this) ==
  LET fullRealmUrl == internals[this.internal].fullRealmUrl
  IN IF fullRealmUrl # <<>>
       THEN Read("url", this, FALSE, fullRealmUrl[1])
       ELSE Read("url", this, TRUE, "Unable to determine URL")

\* `if (url)`: undefined and the empty string both count as no URL.
get_url(this) ==
  LET fullRealmUrl == internals[this.internal].fullRealmUrl
  IN IF fullRealmUrl # <<>> /\ fullRealmUrl[1] # ""
       THEN Read("url", this, FALSE, fullRealmUrl[1])
       ELSE Read("url", this, TRUE, "Unable to determine URL")

get_connectionState(this) ==
  LET r == fromBindingConnectionState(internals[this.internal].connectionState)
  IN Read("connectionState", this, r.threw, r.value)

Mut_isConnectedWhenActive(this) ==
  Read("isConnected", this, FALSE,
       /\ internals[this.internal].connectionState = "binding.Connected"
       /\ internals[this.internal].state = "binding.Active")

isConnected(this) ==
  Read("isConnected", this, FALSE,
       /\ internals[this.internal].connectionState = "binding.Connected"
       /\ \/ internals[this.internal].state = "binding.Active"
          \/ internals[this.internal].state = "binding.Dying")

\* The engine changes one field of one of its sessions.
EngineSets(h, field, value) ==
  /\ internals[h][field] # value
  /\ internals' = [internals EXCEPT ![h][field] = value]
  /\ lastRead' = NoRead
  /\ UNCHANGED <<listeners, engine, lastCall, waits, deliveries>>

\* ---------------------------------------------------- deadline-bound waits
\* timeoutMs is optional: <<>> when the caller omits it, <<ms>> when given.
TimeoutInputs == {<<>>, <<0>>, <<50>>}

\* `${timeoutMs}` in a template literal: the number's decimal digits, or
\* "undefined" when the argument is omitted.
Interpolate(timeoutMs) ==
  IF Len(timeoutMs) = 1 THEN ToString(timeoutMs[1]) ELSE "undefined"

\* Mutant: the message names no duration.
Mut_messageWithoutDuration(timeoutMs) ==
  <<"Downloading changes did not complete in ", "time", ".">>

downloadTimeoutMessage(timeoutMs) ==
  <<"Downloading changes did not complete in ", Interpolate(timeoutMs), " ms.">>

uploadTimeoutMessage(timeoutMs) ==
  <<"Uploading changes did not complete in ", Interpolate(timeoutMs), " ms.">>

NoError == [name |-> "none", message |-> <<>>]
EngineError == [name |-> "EngineError", message |-> <<"engine failure">>]
TimeoutError(message) == [name |-> "TimeoutError", message |-> message]

\* new TimeoutPromise(inner, ms, message): a timer is created only when ms is a
\* number; the result starts pending.
TimeoutPromise(inner, ms, message) ==
  [signal |-> inner,
   reacted |-> FALSE,
   timeoutMs |-> ms,
   message |-> message,
   timer |-> IF Len(ms) = 1 THEN "pending" ELSE "none",
   result |-> [status |-> "pending", error |-> NoError],
   settles |-> 0]

\* Mutant: no latch, every settle attempt overwrites the result.
Mut_settleWithoutLatch(w, status, error) ==
  [w EXCEPT !.result = [status |-> status, error |-> error],
            !.settles = @ + 1]

\* The single-use latch: the first settle attempt decides the result, a later
\* one is a silent no-op.
Settle(w, status, error) ==
  IF w.result.status = "pending"
    THEN [w EXCEPT !.result = [status |-> status, error |-> error],
                   !.settles = @ + 1]
    ELSE w

\* The completion signal the engine returns: pending until the engine settles it.
waitForDownloadCompletion(internal) ==
  [primitive |-> "waitForDownloadCompletion", state |-> "pending"]

waitForUploadCompletion(internal) ==
  [primitive |-> "waitForUploadCompletion", state |-> "pending"]

\* A wait: the facade call and the argument the caller gave, with the
\* TimeoutPromise the call returned.
Wait(call, timeoutMs, promise) ==
  [call |-> call, arg |-> timeoutMs] @@ promise

\* Mutant: an omitted timeoutMs defaults to 0.
Mut_defaultTimeout(this, timeoutMs) ==
  /\ Len(waits) < MaxWaits
  /\ LET ms == IF Len(timeoutMs) = 1 THEN timeoutMs ELSE <<0>> IN
     waits' = Append(waits,
       Wait("downloadAllServerChanges", timeoutMs,
            TimeoutPromise(waitForDownloadCompletion(this.internal), ms,
                           downloadTimeoutMessage(timeoutMs))))
  /\ UNCHANGED registryVars

downloadAllServerChanges(this, timeoutMs) ==
  /\ Len(waits) < MaxWaits
  /\ waits' = Append(waits,
       Wait("downloadAllServerChanges", timeoutMs,
            TimeoutPromise(waitForDownloadCompletion(this.internal), timeoutMs,
                           downloadTimeoutMessage(timeoutMs))))
  /\ UNCHANGED registryVars

uploadAllLocalChanges(this, timeoutMs) ==
  /\ Len(waits) < MaxWaits
  /\ waits' = Append(waits,
       Wait("uploadAllLocalChanges", timeoutMs,
            TimeoutPromise(waitForUploadCompletion(this.internal), timeoutMs,
                           uploadTimeoutMessage(timeoutMs))))
  /\ UNCHANGED registryVars

\* The engine settles a completion signal, with success or with its own error.
SignalSettles(i, state) ==
  /\ waits[i].signal.state = "pending"
  /\ waits' = [waits EXCEPT ![i].signal.state = state]
  /\ UNCHANGED registryVars

\* A settled signal whose reaction has not run yet: a queued promise job.
JobQueued(w) == w.signal.state # "pending" /\ ~w.reacted

\* Mutant: a failure of the signal is reported as a timeout.
Mut_signalFailureAsTimeout(i) ==
  /\ JobQueued(waits[i])
  /\ waits' = [waits EXCEPT ![i] =
       [(IF @.signal.state = "resolved"
           THEN Settle(@, "fulfilled", NoError)
           ELSE Settle(@, "rejected", TimeoutError(@.message)))
        EXCEPT !.reacted = TRUE,
               !.timer = IF @ = "pending" THEN "cancelled" ELSE @]]
  /\ UNCHANGED registryVars

\* Mutant: the signal path forwards the outcome and leaves the timer running.
Mut_signalPathKeepsTimer(i) ==
  /\ JobQueued(waits[i])
  /\ waits' = [waits EXCEPT ![i] =
       [(IF @.signal.state = "resolved"
           THEN Settle(@, "fulfilled", NoError)
           ELSE Settle(@, "rejected", EngineError))
        EXCEPT !.reacted = TRUE]]
  /\ UNCHANGED registryVars

\* The signal path: forward the signal's outcome to the result, cancel the timer.
SignalPath(i) ==
  /\ JobQueued(waits[i])
  /\ waits' = [waits EXCEPT ![i] =
       [(IF @.signal.state = "resolved"
           THEN Settle(@, "fulfilled", NoError)
           ELSE Settle(@, "rejected", EngineError))
        EXCEPT !.reacted = TRUE,
               !.timer = IF @ = "pending" THEN "cancelled" ELSE @]]
  /\ UNCHANGED registryVars

\* The timer path: the timer fires and rejects the result with the timeout
\* message. Promise jobs run before the next timer callback, so no timer fires
\* while a settled signal's reaction is queued.
TimerFires(i) ==
  /\ waits[i].timer = "pending"
  /\ \A j \in 1..Len(waits) : ~JobQueued(waits[j])
  /\ waits' = [waits EXCEPT ![i] =
       [Settle(@, "rejected", TimeoutError(@.message)) EXCEPT !.timer = "fired"]]
  /\ UNCHANGED registryVars

\* ------------------------------------------------------------ specification
Init ==
  /\ listeners = [k \in Kinds |-> {}]
  /\ engine = [notifiers |-> [h \in Handles |-> [k \in Kinds |-> {}]],
               next |-> [h \in Handles |-> [k \in Kinds |-> 1]],
               released |-> [h \in Handles |-> [k \in Kinds |-> [t \in Tokens |-> 0]]]]
  /\ lastCall = [op |-> "none"]
  /\ waits = <<>>
  /\ deliveries = <<>>
  /\ internals = [h \in Handles |-> [state |-> "binding.Inactive",
                                      connectionState |-> "binding.Disconnected",
                                      fullRealmUrl |-> <<>>]]
  /\ lastRead = NoRead

AddProgress ==
  \E this \in SyncSession, direction \in DirectionInputs, mode \in ProgressMode,
     callback \in Callbacks :
    addProgressNotification(this, direction, mode, callback)

RemoveProgress ==
  \E this \in SyncSession, callback \in Callbacks :
    removeProgressNotification(this, callback)

AddConnection ==
  \E this \in SyncSession, callback \in Callbacks :
    addConnectionNotification(this, callback)

RemoveConnection ==
  \E this \in SyncSession, callback \in Callbacks :
    removeConnectionNotification(this, callback)

Next == AddProgress \/ RemoveProgress \/ AddConnection \/ RemoveConnection

Spec == Init /\ [][Next]_vars

Download ==
  \E this \in SyncSession, timeoutMs \in TimeoutInputs :
    downloadAllServerChanges(this, timeoutMs)

Upload ==
  \E this \in SyncSession, timeoutMs \in TimeoutInputs :
    uploadAllLocalChanges(this, timeoutMs)

Signal ==
  \E i \in 1..Len(waits), state \in {"resolved", "rejected"} : SignalSettles(i, state)

Reaction == \E i \in 1..Len(waits) : SignalPath(i)

Timer == \E i \in 1..Len(waits) : TimerFires(i)

WaitNext == Download \/ Upload \/ Signal \/ Reaction \/ Timer

WaitSpec == Init /\ [][WaitNext]_vars

\* Deliveries are followed for one kind at a time; the direction and the mode
\* of a progress registration do not reach the adapter.
AddProgressIndefinitely ==
  \E this \in SyncSession, callback \in Callbacks :
    addProgressNotification(this, "download", "reportIndefinitely", callback)

ProgressDelivery ==
  \E h \in Handles : \E r \in engine.notifiers[h].progress : DeliverProgress(h, r)

ConnectionDelivery ==
  \E h \in Handles : \E r \in engine.notifiers[h].connection : DeliverConnection(h, r)

SessionStateChanges ==
  \E h \in Handles, value \in SessionStateInputs : EngineSets(h, "state", value)

ConnectionStateChanges ==
  \E h \in Handles, value \in ConnectionStateInputs :
    EngineSets(h, "connectionState", value)

UrlChanges ==
  \E h \in Handles, value \in UrlInputs : EngineSets(h, "fullRealmUrl", value)

ReadState == \E this \in SyncSession : get_state(this)

ReadUrl == \E this \in SyncSession : get_url(this)

ReadConnectionState == \E this \in SyncSession : get_connectionState(this)

ReadIsConnected == \E this \in SyncSession : isConnected(this)

ReadNext ==
  \/ SessionStateChanges
  \/ ConnectionStateChanges
  \/ UrlChanges
  \/ ReadState
  \/ ReadUrl
  \/ ReadConnectionState
  \/ ReadIsConnected

ReadSpec == Init /\ [][ReadNext]_vars

\* The three translations on values outside their enums: every add passes a
\* direction that is not a ProgressDirection, and the engine's states include
\* an unrecognized one.
AddProgressUnrecognized ==
  \E this \in SyncSession, direction \in DirectionInputs \ ProgressDirection,
     mode \in ProgressMode, callback \in Callbacks :
    addProgressNotification(this, direction, mode, callback)

TranslateNext ==
  \/ AddProgressUnrecognized
  \/ SessionStateChanges
  \/ ConnectionStateChanges
  \/ ReadState
  \/ ReadConnectionState

TranslateSpec == Init /\ [][TranslateNext]_vars

ProgressDeliverNext == AddProgressIndefinitely \/ RemoveProgress \/ ProgressDelivery

ProgressDeliverSpec == Init /\ [][ProgressDeliverNext]_vars

ConnectionDeliverNext == AddConnection \/ RemoveConnection \/ ConnectionDelivery

ConnectionDeliverSpec == Init /\ [][ConnectionDeliverNext]_vars

\* ------------------------------------------------------------------ claims
Live(kind, callback) == has(listeners[kind], callback)

Entries(reg, callback) == {e \in reg : e.callback = callback}

\* The call that led from the current state to the next one.
IsCall(op, kind, callback) ==
  /\ lastCall'.op = op
  /\ lastCall'.kind = kind
  /\ lastCall'.callback = callback

\* C1: in either registry, an add of a callback that already has a live entry
\* fails with DuplicateRegistration, and the registry (its entries, their number,
\* the callback's token) and the engine are the same after the call as before.
C1_DuplicateAddRejected ==
  [][\A k \in Kinds, c \in Callbacks :
       (Live(k, c) /\ IsCall("add", k, c))
         => /\ lastCall'.outcome = "DuplicateRegistration"
            /\ listeners' = listeners
            /\ Cardinality(listeners'[k]) = Cardinality(listeners[k])
            /\ get(listeners'[k], c) = get(listeners[k], c)
            /\ engine' = engine]_vars

C1_Witness ==
  /\ lastCall.op = "add"
  /\ lastCall.outcome = "DuplicateRegistration"
  /\ Live(lastCall.kind, lastCall.callback)

\* C2: every callback has at most one live entry in the progress registry and at
\* most one in the connection registry, and an add of a live callback leaves the
\* stored token as it was.
AtMostOneEntry ==
  \A k \in Kinds, c \in Callbacks : Cardinality(Entries(listeners[k], c)) <= 1

C2_AtMostOneLiveEntry ==
  [][/\ AtMostOneEntry
     /\ AtMostOneEntry'
     /\ \A k \in Kinds, c \in Callbacks :
          (Live(k, c) /\ IsCall("add", k, c))
            => Entries(listeners'[k], c) = Entries(listeners[k], c)]_vars

C2_Witness ==
  /\ lastCall.op = "add"
  /\ lastCall.kind = "connection"
  /\ lastCall.outcome = "DuplicateRegistration"
  /\ Cardinality(listeners.connection) = NumCallbacks
  /\ Cardinality(Entries(listeners.connection, lastCall.callback)) = 1

\* C3: the registrations live inside the engine, per handle and per kind, are
\* exactly the live registry entries, and no token is passed to an unregister
\* primitive more than once.
C3_NoLeakNoDoubleRelease ==
  \A h \in Handles, k \in Kinds :
    /\ {[callback |-> r.callback, token |-> [internal |-> h, token |-> r.token]] :
          r \in engine.notifiers[h][k]}
         = {e \in listeners[k] : e.token.internal = h}
    /\ \A t \in Tokens : engine.released[h][k][t] <= 1

\* C4: removing a live connection listener releases its token through
\* unregisterConnectionChangeCallback and leaves the progress side of the handle
\* (its registrations and its releases) untouched.
C4_ConnectionUnregisterPrimitive ==
  [][\A c \in Callbacks :
       (Live("connection", c) /\ IsCall("remove", "connection", c))
         => LET tok == get(listeners.connection, c) IN
            /\ engine'.released[tok.internal].connection[tok.token]
                 = engine.released[tok.internal].connection[tok.token] + 1
            /\ \A h \in Handles :
                 /\ engine'.released[h].progress = engine.released[h].progress
                 /\ engine'.notifiers[h].progress = engine.notifiers[h].progress]_vars

\* C5: a remove of a callback with no live entry does not throw, calls no
\* engine primitive and leaves the registries unchanged.
C5_RemoveAbsentIsNoOp ==
  [][\A k \in Kinds, c \in Callbacks :
       (~Live(k, c) /\ IsCall("remove", k, c))
         => /\ lastCall'.outcome = "ok"
            /\ listeners' = listeners
            /\ engine' = engine]_vars

C5_Witness ==
  /\ lastCall.op = "remove"
  /\ lastCall.outcome = "ok"
  /\ Registered(engine) = 0

\* C6: an add that follows the removal of the same callback from the same
\* registry succeeds: it registers with the engine again and the callback's
\* single live entry holds the token that registration returned.
AddedAgain(k, c, h) ==
  /\ lastCall'.outcome = "ok"
  /\ engine'.next[h][k] = engine.next[h][k] + 1
  /\ \E r \in engine'.notifiers[h][k] :
       r.token = engine.next[h][k] /\ r.callback = c
  /\ Entries(listeners'[k], c)
       = {[callback |-> c,
           token |-> [internal |-> h, token |-> engine.next[h][k]]]}

\* The step is an add of c through `this`, right after a remove of c from the
\* same registry.
AddFollowsRemove(k, c, this) ==
  /\ lastCall.op = "remove" /\ lastCall.kind = k /\ lastCall.callback = c
  /\ IsCall("add", k, c)
  /\ lastCall'.internal = this.internal

C6_AddAfterRemove ==
  [][\A this \in SyncSession, c \in Callbacks :
       /\ (/\ AddFollowsRemove("progress", c, this)
           /\ \E d \in ProgressDirection, m \in ProgressMode :
                addProgressNotification(this, d, m, c))
            => AddedAgain("progress", c, this.internal)
       /\ (/\ AddFollowsRemove("connection", c, this)
           /\ addConnectionNotification(this, c))
            => AddedAgain("connection", c, this.internal)]_vars

C6_Witness ==
  /\ lastCall.op = "add"
  /\ lastCall.kind = "progress"
  /\ lastCall.outcome = "ok"
  /\ Registered(engine) = 2
  /\ engine.released[lastCall.internal].progress[1] = 1
  /\ listeners.progress
       = {[callback |-> lastCall.callback,
           token |-> [internal |-> lastCall.internal, token |-> 2]]}

\* C7: a remove through any facade instance deletes the callback's entry and
\* makes its one unregister call on the handle stored in the token, whatever
\* handle the instance used for the removal wraps.
C7_RemoveThroughOtherInstance ==
  [][\A k \in Kinds, c \in Callbacks :
       (Live(k, c) /\ IsCall("remove", k, c))
         => LET tok == get(listeners[k], c) IN
            /\ ~has(listeners'[k], c)
            /\ \E p \in Kinds :
                 engine'.released[tok.internal] =
                   [engine.released[tok.internal] EXCEPT ![p][tok.token] = @ + 1]
            /\ \A h \in Handles \ {tok.internal} :
                 /\ engine'.released[h] = engine.released[h]
                 /\ engine'.notifiers[h] = engine.notifiers[h]]_vars

C7_Witness ==
  /\ lastCall.op = "remove"
  /\ lastCall.kind = "progress"
  /\ \E h \in Handles \ {lastCall.internal} :
       /\ engine.released[h].progress[1] = 1
       /\ engine.next[h].progress = 2
  /\ Registered(engine) = 1
  /\ listeners.progress = {}

Waits == 1..Len(waits)

\* The result the signal's outcome stands for.
SignalOutcome(w) ==
  IF w.signal.state = "resolved"
    THEN [status |-> "fulfilled", error |-> NoError]
    ELSE [status |-> "rejected", error |-> EngineError]

\* The step in which wait i's timer fires, and the one in which its signal path runs.
TimerFired(i) == waits[i].timer = "pending" /\ waits'[i].timer = "fired"
SignalPathRan(i) == ~waits[i].reacted /\ waits'[i].reacted

\* C8: every wait settles exactly once: the result is settled as soon as its
\* timer has fired or its signal path has run, the first of the two decides it
\* (Timeout for the timer, the signal's outcome for the signal), and the later
\* one leaves the result as it is.
C8_SettlesExactlyOnce ==
  [][\A i \in Waits :
       /\ waits'[i].settles <= 1
       /\ (waits'[i].settles = 1) <=> (waits'[i].result.status # "pending")
       /\ (waits'[i].timer = "fired" \/ waits'[i].reacted) => waits'[i].settles = 1
       /\ waits[i].result.status # "pending" => waits'[i].result = waits[i].result
       /\ (waits[i].result.status = "pending" /\ TimerFired(i))
            => waits'[i].result.error.name = "TimeoutError"
       /\ (waits[i].result.status = "pending" /\ SignalPathRan(i))
            => waits'[i].result = SignalOutcome(waits[i])]_vars

\* Both events have happened to one wait, the timer first.
C8_Witness ==
  \E i \in Waits :
    /\ waits[i].timer = "fired"
    /\ waits[i].reacted
    /\ waits[i].signal.state = "resolved"
    /\ waits[i].result.status = "rejected"
    /\ waits[i].settles = 1

\* C9: when a timeoutMs was given and the timer fires while the result is
\* pending, the wait fails with a Timeout error whose message is the one of its
\* direction with the configured duration in it, and the completion signal is
\* left as it was: outstanding, free to settle later.
ExpectedPrefix(w) ==
  IF w.call = "downloadAllServerChanges"
    THEN "Downloading changes did not complete in "
    ELSE "Uploading changes did not complete in "

C9_TimeoutMessage ==
  [][\A i \in Waits :
       (Len(waits[i].arg) = 1 /\ waits[i].result.status = "pending" /\ TimerFired(i))
         => /\ waits'[i].result.status = "rejected"
            /\ waits'[i].result.error.name = "TimeoutError"
            /\ waits'[i].result.error.message
                 = <<ExpectedPrefix(waits[i]), ToString(waits[i].arg[1]), " ms.">>
            /\ waits'[i].signal = waits[i].signal
            /\ waits'[i].signal.state = "pending"]_vars

C9_Witness ==
  \E i \in Waits :
    /\ waits[i].call = "downloadAllServerChanges"
    /\ waits[i].arg = <<50>>
    /\ waits[i].timer = "fired"
    /\ waits[i].signal.state = "pending"
    /\ waits[i].result.error.message[2] = "50"

\* C10: a wait whose timeoutMs was omitted has no timer, never fails with
\* Timeout, is pending as long as its signal's outcome has not been forwarded,
\* and then holds the signal's outcome.
C10_NoTimeoutWhenOmitted ==
  \A i \in Waits :
    waits[i].arg = <<>>
      => /\ waits[i].timer = "none"
         /\ waits[i].result.error.name # "TimeoutError"
         /\ waits[i].signal.state = "pending" => waits[i].result.status = "pending"
         /\ waits[i].reacted => waits[i].result = SignalOutcome(waits[i])
         /\ ~waits[i].reacted => waits[i].result.status = "pending"

C10_Witness ==
  \E i \in Waits :
    /\ waits[i].arg = <<>>
    /\ waits[i].signal.state = "rejected"
    /\ waits[i].reacted
    /\ waits[i].result.status = "rejected"
    /\ waits[i].result.error = EngineError

\* C11: when a timeoutMs was given and the signal settles while the timer has
\* not fired, the timer does not fire any more and the result becomes the
\* signal's own outcome: success, or the signal's failure, never a Timeout.
SignalWon(w) ==
  /\ Len(w.arg) = 1
  /\ w.signal.state # "pending"
  /\ w.timer # "fired"

C11_SignalFirstForwarded ==
  [][\A i \in Waits :
       /\ SignalWon(waits[i]) => waits'[i].timer # "fired"
       /\ SignalWon(waits'[i])
            => /\ waits'[i].result.error.name # "TimeoutError"
               /\ waits'[i].reacted => waits'[i].result = SignalOutcome(waits'[i])
               /\ ~waits'[i].reacted => waits'[i].result.status = "pending"]_vars

C11_Witness ==
  \E i \in Waits :
    /\ waits[i].arg = <<50>>
    /\ waits[i].signal.state = "rejected"
    /\ waits[i].reacted
    /\ waits[i].timer = "cancelled"
    /\ waits[i].result = [status |-> "rejected", error |-> EngineError]

\* C12: once the result of a wait has settled no timer of that wait is pending,
\* and no timer fires after the signal path has run.
C12_TimerCleanedUp ==
  [][\A i \in Waits :
       /\ waits'[i].result.status # "pending" => waits'[i].timer # "pending"
       /\ waits[i].reacted => ~TimerFired(i)]_vars

C12_Witness ==
  \E i \in Waits, j \in Waits :
    /\ waits[i].result.status = "fulfilled"
    /\ waits[i].timer = "cancelled"
    /\ waits[j].result.error.name = "TimeoutError"
    /\ waits[j].timer = "fired"

\* C13: every progress event the engine delivers makes exactly one call of the
\* callback of the registration it was delivered to, with the numbers of the
\* event's (transferred, transferable), and the n-th event delivered is the n-th
\* call made: nothing is reordered, merged or repeated.
Deliveries == 1..Len(deliveries)

C13_ProgressDeliveredOnceInOrder ==
  \A n \in Deliveries :
    deliveries[n].kind = "progress"
      => /\ deliveries[n].event = ProgressEvent(n)
         /\ Len(deliveries[n].calls) = 1
         /\ deliveries[n].calls[1].callback = deliveries[n].registered
         /\ deliveries[n].calls[1].args
              = <<deliveries[n].event[1].bigint, deliveries[n].event[2].bigint>>

C13_Witness ==
  /\ Len(deliveries) >= 2
  /\ deliveries[1].token = deliveries[2].token
  /\ deliveries[1].handle = deliveries[2].handle
  /\ deliveries[1].calls[1].args = <<500, 500 * MaxDeliveries>>
  /\ deliveries[2].calls[1].args = <<1000, 500 * MaxDeliveries>>
  /\ deliveries[1].calls[1].callback = deliveries[2].calls[1].callback

\* C17: a facade call is one step, so a delivery never meets a half-made entry:
\* every event is delivered to a registration whose callback has, at that
\* moment, its entry with that registration's token in the registry.
C17_DeliveriesMeetWholeEntries ==
  \A n \in Deliveries : deliveries[n].entry

\* C19: every connection change the engine delivers as (oldState, newState)
\* makes exactly one call of the registered callback, with the public values of
\* the two states in the order (newState, oldState).
PublicConnectionState ==
  [s \in SyncSessionConnectionState |->
     CASE s = "binding.Disconnected" -> "disconnected"
       [] s = "binding.Connecting" -> "connecting"
       [] s = "binding.Connected" -> "connected"]

C19_ConnectionChangeNewThenOld ==
  \A n \in Deliveries :
    deliveries[n].kind = "connection"
      => /\ Len(deliveries[n].calls) = 1
         /\ deliveries[n].calls[1].callback = deliveries[n].registered
         /\ deliveries[n].calls[1].args
              = <<PublicConnectionState[deliveries[n].event[2]],
                  PublicConnectionState[deliveries[n].event[1]]>>

C19_Witness ==
  \E n \in Deliveries :
    /\ deliveries[n].event = <<"binding.Connecting", "binding.Connected">>
    /\ deliveries[n].calls
         = <<[callback |-> deliveries[n].registered,
              args |-> <<"connected", "connecting">>]>>

\* C14: isConnected() returns true exactly when the engine's connection state
\* is Connected and its session state is Active or Dying, and false for every
\* other pair of values.
ReadOf(op) == lastRead.op = op

ReadFields == internals[lastRead.internal]

C14_IsConnectedTruthTable ==
  ReadOf("isConnected")
    => /\ ~lastRead.threw
       /\ lastRead.value
            <=> /\ ReadFields.connectionState = "binding.Connected"
                /\ ReadFields.state \in {"binding.Active", "binding.Dying"}

C14_Witness ==
  /\ ReadOf("isConnected")
  /\ lastRead.value
  /\ ReadFields.state = "binding.Dying"

\* C15 (as claimed): each of the three translations rejects a value outside
\* its known set: an add with an unknown direction fails, and a read of an
\* unrecognized engine connection state or session state fails; no public
\* value is returned for it.
C15_UnrecognizedValueRejected ==
  /\ lastCall.op = "add" => lastCall.outcome = "Unexpected direction"
  /\ ReadOf("connectionState") /\ ReadFields.connectionState = Unrecognized
       => lastRead.threw
  /\ ReadOf("state") /\ ReadFields.state = Unrecognized
       => lastRead.threw

\* C15 (amended): the direction and the connection state translations reject a
\* value outside their known set, and only such a value; the session state
\* translation rejects nothing: it returns Inactive for Inactive and Active for
\* every other value, an unrecognized one included.
C15_DirectionAndConnectionRejected ==
  /\ lastCall.op = "add"
       => /\ lastCall.outcome = "Unexpected direction"
          /\ listeners.progress = {}
  /\ ReadOf("connectionState")
       => /\ lastRead.threw <=> ReadFields.connectionState = Unrecognized
          /\ lastRead.threw => lastRead.value = "Unexpected state"
          /\ ~lastRead.threw
               => lastRead.value \in {"disconnected", "connecting", "connected"}
  /\ ReadOf("state")
       => /\ ~lastRead.threw
          /\ lastRead.value
               = IF ReadFields.state = "binding.Inactive" THEN "inactive" ELSE "active"

C15_Witness ==
  /\ lastCall.op = "add"
  /\ ReadOf("state")
  /\ ReadFields.state = Unrecognized
  /\ ReadFields.connectionState = Unrecognized
  /\ lastRead.value = "active"

\* C16: the url accessor fails when the engine has no URL or an empty one, and
\* otherwise returns the engine's URL as it is; it never returns the empty
\* string.
C16_UrlOrFailure ==
  ReadOf("url")
    => IF ReadFields.fullRealmUrl \in {<<>>, <<"">>}
         THEN lastRead.threw /\ lastRead.value = "Unable to determine URL"
         ELSE ~lastRead.threw /\ <<lastRead.value>> = ReadFields.fullRealmUrl

C16_Witness ==
  /\ ReadOf("url")
  /\ ReadFields.fullRealmUrl = <<"">>
  /\ lastRead.threw

\* C18: a read of the state accessor changes nothing and returns Inactive
\* exactly when the engine's session state is Inactive, Active for every other
\* engine state, and never Invalid.
C18_StateInactiveOrActive ==
  [][lastRead'.op = "state"
       => /\ UNCHANGED <<listeners, engine, lastCall, waits, deliveries, internals>>
          /\ ~lastRead'.threw
          /\ lastRead'.value # "invalid"
          /\ lastRead'.value = "inactive"
               <=> internals[lastRead'.internal].state = "binding.Inactive"
          /\ lastRead'.value = "active"
               <=> internals[lastRead'.internal].state # "binding.Inactive"]_vars

C18_Witness ==
  /\ ReadOf("state")
  /\ lastRead.value = "active"
  /\ ReadFields.state = "binding.Dying"

\* C20: a registry is keyed by the callback alone. While a callback has a live
\* entry made on one handle, an add of it to the same registry through an
\* instance of another handle fails as a duplicate and leaves that entry, its
\* token and the engine as they were; an add of a callback that is live only in
\* the other registry is not a duplicate, and when it succeeds the callback is
\* live in both registries, its earlier entry unchanged.
OtherKind(k) == IF k = "progress" THEN "connection" ELSE "progress"

C20_KeyedByCallbackAlone ==
  [][\A k \in Kinds, c \in Callbacks :
       IsCall("add", k, c)
         => /\ (Live(k, c) /\ get(listeners[k], c).internal # lastCall'.internal)
                 => /\ lastCall'.outcome = "DuplicateRegistration"
                    /\ Entries(listeners'[k], c) = Entries(listeners[k], c)
                    /\ engine'.notifiers = engine.notifiers
                    /\ engine'.next = engine.next
            /\ (~Live(k, c) /\ Live(OtherKind(k), c))
                 => /\ lastCall'.outcome # "DuplicateRegistration"
                    /\ listeners'[OtherKind(k)] = listeners[OtherKind(k)]
                    /\ lastCall'.outcome = "ok" => has(listeners'[k], c)]_vars

C20_Witness ==
  \E c \in Callbacks :
    /\ Live("progress", c)
    /\ Live("connection", c)
    /\ lastCall.op = "add"
    /\ lastCall.kind = "progress"
    /\ lastCall.callback = c
    /\ lastCall.outcome = "DuplicateRegistration"
    /\ get(listeners.progress, c).internal # lastCall.internal

====
